---- MODULE Spec2Model ----
(***************************************************************************)
(* Model of the snowball Roller (src/roller.py): incremental ingestion of  *)
(* 1-minute OHLCV data per watchlist symbol, the per-symbol coverage       *)
(* records (meta.yml in each symbol directory) and the aggregate meta.yml. *)
(*                                                                         *)
(* Dates are proleptic Gregorian ordinals (date.toordinal()).  The text    *)
(* written by strftime('%Y-%m-%d') is the record [y, m, d] of its three    *)
(* numeric fields.  A timestamp written by datetime.now().strftime(...) is *)
(* kept at day granularity: the date text of the day it was taken on.      *)
(* A provider response is the set of dates for which it holds rows that    *)
(* survive dropna().                                                       *)
(*                                                                         *)
(* A call takes time (requests, sleeps of 2 s and 1 s) and reads the       *)
(* clock anew each time it needs the date: midnight can pass between two   *)
(* readings of one call, so a call's windows, target date and stamps need  *)
(* not come from the same day.                                             *)
(***************************************************************************)
EXTENDS Integers, Sequences, FiniteSets, TLC

VARIABLES
    today,       \* date.today() between the calls
    symbolMeta,  \* storage/<category>/<symbol>/meta.yml, per symbol
    symbolDir,   \* the symbol directories that exist
    slices,      \* the <date>_1m_ohlcv.parquet files, as <<symbol, date>>
    meta,        \* self.meta, the in-memory aggregate
    metaFile,    \* storage/meta.yml, the persisted aggregate
    lastOp,      \* the last public call and how it ended
    log,         \* provider, calendar, sleep and file-write events of the last call
    steps        \* number of steps taken so far

vars == <<today, symbolMeta, symbolDir, slices, meta, metaFile, lastOp, log, steps>>

\* ------------------------------------------------------------------ bounds

\* the day the first Roller is constructed on: 2024-03-02
Today0 == 738947
\* number of calls and day changes in one behaviour
MaxSteps == 2
\* the most days that pass between two calls
MaxSkip == 2

\* ------------------------------------------------------- program constants

\* days=28 in _download_all_available_1m_ohlcv_for_symbol
LookbackDays == 28
\* timedelta(days=8): the span of one backfill request and the step to the next
WindowDays == 8
\* range(3): the windows after the first
ExtraWindows == 3
\* sleep(2) between backfill windows
WindowSleep == 2
\* sleep(1) at the end of the backfill fetches
FinalSleep == 1

\* ------------------------------------------------------------ configuration

None == "None"

\* config["watchlist"]: category -> symbol -> static attributes
Categories == <<"stocks", "crypto">>

Watchlist ==
    [c \in {"stocks", "crypto"} |->
        IF c = "stocks"
        THEN [s \in {"AAPL"} |-> [exchange |-> "NYSE"]]
        ELSE [s \in {"BTC"} |-> [exchange |-> "24/7"]]]

\* Roller.__init__: self.symbols, the symbols of each category in turn
Symbols == <<"AAPL", "BTC">>

SymbolSet == {Symbols[i] : i \in 1..Len(Symbols)}

RECURSIVE CategoryFrom(_, _)
CategoryFrom(symbol, i) ==
    IF i > Len(Categories) THEN None
    ELSE IF symbol \in DOMAIN Watchlist[Categories[i]] THEN Categories[i]
    ELSE CategoryFrom(symbol, i + 1)

\* Roller._get_symbol_category
GetSymbolCategory(symbol) == CategoryFrom(symbol, 1)

\* --------------------------------------------------------------- date text

\* date.strftime('%Y-%m-%d') of the date with ordinal n
Strftime(n) ==
    LET z == n + 305
        era == z \div 146097
        doe == z - era * 146097
        yoe == (doe - doe \div 1460 + doe \div 36524 - doe \div 146096) \div 365
        doy == doe - (365 * yoe + yoe \div 4 - yoe \div 100)
        mp == (5 * doy + 2) \div 153
        dd == doy - (153 * mp + 2) \div 5 + 1
        mm == IF mp < 10 THEN mp + 3 ELSE mp - 9
        yy == yoe + era * 400 + (IF mm <= 2 THEN 1 ELSE 0)
    IN  [y |-> yy, m |-> mm, d |-> dd]

\* date.fromisoformat(text).toordinal()
FromIsoFormat(t) ==
    LET yy == IF t.m <= 2 THEN t.y - 1 ELSE t.y
        era == yy \div 400
        yoe == yy - era * 400
        mp == IF t.m > 2 THEN t.m - 3 ELSE t.m + 9
        doy == (153 * mp + 2) \div 5 + t.d - 1
        doe == yoe * 365 + yoe \div 4 - yoe \div 100 + doy
    IN  era * 146097 + doe - 305

\* datetime.now().strftime(...), at day granularity
Now(day) == Strftime(day)

MinDate(S) == CHOOSE x \in S : \A y \in S : x <= y
MaxDate(S) == CHOOSE x \in S : \A y \in S : x >= y

\* ------------------------------------------------------------- dictionaries

\* dict.update: the keys of b win, the other keys of a stay
DictUpdate(a, b) ==
    [k \in (DOMAIN a) \cup (DOMAIN b) |-> IF k \in DOMAIN b THEN b[k] ELSE a[k]]

\* ------------------------------------------------------------------ events

\* yf.download(tickers, start, end): got is the <<symbol, date>> pairs with rows
FetchEvent(src, tickers, start, end, got) ==
    [ev |-> "fetch", src |-> src, syms |-> tickers, d1 |-> start, d2 |-> end, got |-> got]
SleepEvent(src, secs) ==
    [ev |-> "sleep", src |-> src, syms |-> {}, d1 |-> secs, d2 |-> secs, got |-> {}]
\* to_parquet of the slice of symbol for date d
WriteEvent(src, symbol, d) ==
    [ev |-> "write", src |-> src, syms |-> {symbol}, d1 |-> d, d2 |-> d + 1, got |-> {}]
\* the calendar answered "no session" for symbol on date d
ClosedEvent(src, symbol, d) ==
    [ev |-> "closed", src |-> src, syms |-> {symbol}, d1 |-> d, d2 |-> d + 1, got |-> {}]
\* yaml.dump of the coverage record of symbol
MetaEvent(src, symbol) ==
    [ev |-> "meta", src |-> src, syms |-> {symbol}, d1 |-> 0, d2 |-> 0, got |-> {}]

\* ------------------------------------------------------- the storage, as W
\* W is what a call has done so far: sm the coverage records, dirs the symbol
\* directories, sl the slices, log the events, raised whether an exception
\* is propagating, clock the number of times the call has read the system
\* clock, mid the reading from which on the clock shows the next day (0: no
\* midnight passes during the call).

World(sm, dirs, sl) ==
    [sm |-> sm, dirs |-> dirs, sl |-> sl, log |-> <<>>, raised |-> FALSE,
     clock |-> 0, mid |-> 0]

\* date.today() / datetime.now() at the next reading of a call begun on day
ClockDay(W, day) == IF W.mid # 0 /\ W.clock + 1 >= W.mid THEN day + 1 ELSE day

\* the clock has been read once more
Tick(W) == [W EXCEPT !.clock = @ + 1]

\* the day the clock shows when the call ends, as far as the call has seen it
DayAfter(W, day) == IF W.mid # 0 /\ W.clock >= W.mid THEN day + 1 ELSE day

\* Roller._create_symbol_dir
CreateSymbolDir(W, symbol) ==
    IF GetSymbolCategory(symbol) = None
    THEN [W EXCEPT !.raised = TRUE]
    ELSE [W EXCEPT !.dirs = @ \cup {symbol}]

\* an update that replaces the record by the new fields
UpdateSymbolMetaFileReplace(W, src, symbol, entry, day) ==
    IF GetSymbolCategory(symbol) = None
    THEN [W EXCEPT !.raised = TRUE]
    ELSE LET Written(w) ==
                 LET m == DictUpdate([symbol |-> symbol,
                                      last_updated |-> Now(ClockDay(w, day))], entry)
                 IN  [w EXCEPT !.sm = DictUpdate(w.sm, [s \in {symbol} |-> m]),
                               !.log = Append(@, MetaEvent(src, symbol)),
                               !.clock = @ + 1]
         IN  Written(W)

\* Roller._update_symbol_meta_file
UpdateSymbolMetaFile(W, src, symbol, entry, day) ==
    IF GetSymbolCategory(symbol) = None
    THEN [W EXCEPT !.raised = TRUE]
    ELSE LET Written(w) ==
                 LET m == DictUpdate([symbol |-> symbol,
                                      last_updated |-> Now(ClockDay(w, day))], entry)
                     written == IF symbol \in DOMAIN w.sm
                                THEN DictUpdate(w.sm[symbol], m) ELSE m
                 IN  [w EXCEPT !.sm = DictUpdate(w.sm, [s \in {symbol} |-> written]),
                               !.log = Append(@, MetaEvent(src, symbol)),
                               !.clock = @ + 1]
         IN  Written(W)

\* Roller._is_trading_day_for_symbol: answer is what the calendar says
IsTradingDayForSymbol(symbol, answer) ==
    LET category == GetSymbolCategory(symbol)
    IN  IF category = None THEN "raise"
        ELSE LET attrs == Watchlist[category][symbol]
             IN  IF "exchange" \notin DOMAIN attrs THEN "raise"
                 ELSE IF attrs["exchange"] = "" THEN "raise"
                 ELSE IF answer THEN "open" ELSE "closed"

\* self.meta.get(category, {}).get(symbol, {}): <<record>>, or <<>> for {}
MetaGet(mem, category, symbol) ==
    IF category \notin DOMAIN mem.cats THEN <<>>
    ELSE IF symbol \notin DOMAIN mem.cats[category] THEN <<>>
    ELSE <<mem.cats[category][symbol]>>

\* ------------------------------------------------------------------ backfill

\* start of backfill window k (k = 0 is the first request)
WindowStart(day, k) == day - LookbackDays + k * WindowDays

\* a concat that keeps only the rows of the later request
ConcatLatest(data1, data2) == data2

\* pd.concat([data1, data2]): the rows of both
Concat(data1, data2) == data1 \cup data2

RECURSIVE ConcatWindows(_, _)
\* data1 after the first request and the k requests of the loop
ConcatWindows(resp, k) ==
    IF k = 0 THEN resp[0] ELSE Concat(ConcatWindows(resp, k - 1), resp[k])

RECURSIVE BackfillFetchesNoSleep(_, _, _, _)
\* the requests of a backfill one after the other, with no sleep between
BackfillFetchesNoSleep(symbol, resp, day, k) ==
    LET d == WindowStart(day, k)
        fetch == FetchEvent("backfill", {symbol}, d, d + WindowDays,
                            {<<symbol, x>> : x \in resp[k]})
    IN  IF k = 0 THEN <<fetch>>
        ELSE Append(BackfillFetchesNoSleep(symbol, resp, day, k - 1), fetch)

RECURSIVE BackfillFetches(_, _, _, _)
\* the requests and sleeps of a backfill up to window k
BackfillFetches(symbol, resp, day, k) ==
    LET d == WindowStart(day, k)
        fetch == FetchEvent("backfill", {symbol}, d, d + WindowDays,
                            {<<symbol, x>> : x \in resp[k]})
    IN  IF k = 0 THEN <<fetch>>
        ELSE BackfillFetches(symbol, resp, day, k - 1)
                 \o <<SleepEvent("backfill", WindowSleep), fetch>>

RECURSIVE SortedDates(_)
SortedDates(S) ==
    IF S = {} THEN <<>> ELSE <<MinDate(S)>> \o SortedDates(S \ {MinDate(S)})

RECURSIVE WriteSlices(_, _, _, _)
\* one to_parquet per date of ds (a sequence), overwriting what is there
WriteSlices(W, src, symbol, ds) ==
    IF ds = <<>> THEN W
    ELSE WriteSlices([W EXCEPT !.sl = @ \cup {<<symbol, Head(ds)>>},
                               !.log = Append(@, WriteEvent(src, symbol, Head(ds)))],
                     src, symbol, Tail(ds))

\* earliest_date of the record backfill writes, from the rows and self.meta
BackfillEarliest(data1, m) ==
    IF m # <<>>
    THEN LET old == FromIsoFormat(m[1]["earliest_date"])
         IN  IF MinDate(data1) <= old THEN MinDate(data1) ELSE old
    ELSE MinDate(data1)

\* a latest_date one day past the last row
BackfillLatestNextDay(data1) == MaxDate(data1) + 1

\* latest_date of the record backfill writes
BackfillLatest(data1) == MaxDate(data1)

\* what backfill does with the rows data1 once the symbol directory is there
BackfillStore(W, symbol, data1, mem, day) ==
    LET W1 == WriteSlices(W, "backfill", symbol, SortedDates(data1))
        category == GetSymbolCategory(symbol)
        m == MetaGet(mem, category, symbol)
        entry == DictUpdate(
                     [earliest_date |-> Strftime(BackfillEarliest(data1, m)),
                      latest_date |-> Strftime(BackfillLatest(data1))],
                     Watchlist[category][symbol])
    IN  UpdateSymbolMetaFile(W1, "backfill", symbol, entry, day)

\* the same, but rows from no window at all end the backfill quietly
BackfillOutcomeSilent(W, symbol, data1, mem, day) ==
    IF data1 = {} THEN W ELSE BackfillStore(W, symbol, data1, mem, day)

\* data1.index.date.min() of no rows raises ValueError, before anything is written
BackfillOutcome(W, symbol, data1, mem, day) ==
    IF data1 = {} THEN [W EXCEPT !.raised = TRUE]
    ELSE BackfillStore(W, symbol, data1, mem, day)

\* Roller._download_all_available_1m_ohlcv_for_symbol in a call begun on day;
\* resp[k] is the set of dates the provider returns rows for in window k, mem
\* is self.meta.  The windows start from date.today() as read here; the record
\* is stamped with the clock as read after the requests and the sleeps.
Backfill(W, symbol, resp, mem, day) ==
    LET Download(w, r) ==
            LET data1 == ConcatWindows(r, ExtraWindows)
                W1 == [w EXCEPT !.log = @ \o BackfillFetches(symbol, r, ClockDay(w, day),
                                                             ExtraWindows)
                                          \o <<SleepEvent("backfill", FinalSleep)>>,
                                !.clock = @ + 1]
                W2 == CreateSymbolDir(W1, symbol)
            IN  IF W2.raised THEN W2 ELSE BackfillOutcome(W2, symbol, data1, mem, day)
    IN  Download(W, resp)

\* ------------------------------------------------------------ the aggregate

\* a scan that leaves an entry the aggregate already holds as it is
SetEntryIfAbsent(cats, category, symbol, record) ==
    LET before == IF category \in DOMAIN cats THEN cats[category] ELSE <<>>
    IN  IF symbol \in DOMAIN before THEN cats
        ELSE DictUpdate(cats, [c \in {category} |->
                                  DictUpdate(before, [s \in {symbol} |-> record])])

\* self.meta[category][symbol] = symbol_meta, creating the category if needed
SetEntry(cats, category, symbol, record) ==
    LET before == IF category \in DOMAIN cats THEN cats[category] ELSE <<>>
    IN  DictUpdate(cats, [c \in {category} |->
                             DictUpdate(before, [s \in {symbol} |-> record])])

RECURSIVE ScanSymbols(_, _, _, _)
\* the inner loop of _scan_storage_meta over the directories of one category
ScanSymbols(cats, W, category, todo) ==
    IF todo = {} THEN cats
    ELSE LET symbol == CHOOSE s \in todo : TRUE
         IN  ScanSymbols(IF symbol \in DOMAIN W.sm
                         THEN SetEntry(cats, category, symbol, W.sm[symbol])
                         ELSE cats,
                         W, category, todo \ {symbol})

RECURSIVE ScanCategories(_, _, _)
ScanCategories(cats, W, i) ==
    IF i > Len(Categories) THEN cats
    ELSE LET category == Categories[i]
             listed == {s \in W.dirs : GetSymbolCategory(s) = category}
         IN  ScanCategories(ScanSymbols(cats, W, category, listed), W, i + 1)

\* Roller._scan_storage_meta
ScanStorageMeta(mem, W) == [mem EXCEPT !.cats = ScanCategories(mem.cats, W, 1)]

\* an update of the aggregate that saves without scanning
UpdateStorageMetaNoScan(mem, W, day) ==
    LET stamped == [mem EXCEPT !.last_updated = Now(ClockDay(W, day))]
    IN  [meta |-> stamped, file |-> <<stamped>>]

\* Roller._update_storage_meta followed by what it saves: [meta, file]
UpdateStorageMeta(mem, W, day) ==
    LET scanned == ScanStorageMeta([mem EXCEPT !.last_updated = Now(ClockDay(W, day))], W)
    IN  [meta |-> scanned, file |-> <<scanned>>]

\* Roller._load_storage_meta; file is <<>> when storage/meta.yml does not exist
LoadStorageMeta(file, W, day) ==
    IF file # <<>>
    THEN [meta |-> file[1], file |-> file]
    ELSE LET fresh == [created_at |-> Now(day), last_updated |-> Now(day),
                       cats |-> [c \in {Categories[i] : i \in 1..Len(Categories)} |-> <<>>]]
             scanned == ScanStorageMeta(fresh, W)
         IN  [meta |-> scanned, file |-> <<scanned>>]

\* --------------------------------------------------------------------- roll

\* the symbols roll treats as new: not in self.meta[category]
IsNewSymbol(mem, symbol) ==
    LET category == GetSymbolCategory(symbol)
    IN  IF category \in DOMAIN mem.cats THEN symbol \notin DOMAIN mem.cats[category]
        ELSE TRUE

RECURSIVE RollPartition(_, _, _, _, _)
\* the first loop of roll: R is [W, list], list the existing symbols so far
RollPartition(R, i, mem, day, bf) ==
    IF i > Len(Symbols) \/ R.W.raised THEN R
    ELSE LET symbol == Symbols[i]
         IN  IF IsNewSymbol(mem, symbol)
             THEN RollPartition([R EXCEPT !.W = Backfill(R.W, symbol, bf[symbol][ClockDay(R.W, day)], mem, day)],
                                i + 1, mem, day, bf)
             ELSE RollPartition([R EXCEPT !.list = Append(@, symbol)], i + 1, mem, day, bf)

RECURSIVE RollCalendar(_, _, _, _, _)
\* the calendar loop of roll: R is [W, list], list the trading symbols so far
RollCalendar(R, existing, i, d, cal) ==
    IF i > Len(existing) \/ R.W.raised THEN R
    ELSE LET symbol == existing[i]
             answer == IsTradingDayForSymbol(symbol, cal[symbol])
         IN  IF answer = "raise" THEN [R EXCEPT !.W.raised = TRUE]
             ELSE IF answer = "open"
             THEN RollCalendar([R EXCEPT !.list = Append(@, symbol)], existing, i + 1, d, cal)
             ELSE RollCalendar([R EXCEPT !.W.log = Append(@, ClosedEvent("roll", symbol, d))],
                               existing, i + 1, d, cal)

\* a batched request for every existing symbol, closed or not
RollTickersExisting(existing, trading) == {existing[i] : i \in 1..Len(existing)}

\* tickers of the batched request of roll
RollTickers(existing, trading) == {trading[i] : i \in 1..Len(trading)}

RECURSIVE RollSave(_, _, _, _, _, _)
\* the save loop of roll over trading_symbols
RollSave(W, trading, i, d, has, day) ==
    IF i > Len(trading) \/ W.raised THEN W
    ELSE LET symbol == trading[i]
         IN  IF ~has[symbol] THEN RollSave(W, trading, i + 1, d, has, day)
             ELSE LET W1 == WriteSlices(W, "roll", symbol, <<d>>)
                      W2 == UpdateSymbolMetaFile(W1, "roll", symbol,
                                                 [latest_date |-> Strftime(d)], day)
                  IN  RollSave(W2, trading, i + 1, d, has, day)

\* how a call ends: an exception leaves self.meta and storage/meta.yml alone,
\* otherwise the call ends in _update_storage_meta
Finish(W, mem, file, day) ==
    LET End(w) ==
            IF w.raised THEN [W |-> w, meta |-> mem, file |-> file]
            ELSE LET u == UpdateStorageMeta(mem, w, day)
                 IN  [W |-> Tick(w), meta |-> u.meta, file |-> u.file]
    IN  End(W)

\* a target date that is the running day itself
RollTargetToday(day) == day

\* d = date.today() - timedelta(days=1): the date roll downloads
RollTargetDate(day) == day - 1

\* Roller.roll in a call begun on day.  bf[s][x]: the provider's rows for the
\* windows of a backfill of s that reads the date x;
\* cal[s]: the calendar's answer for s on today-1; has[s]: whether the batched
\* request returns rows for s; emptyRaises: whether the provider library
\* raises when asked for no ticker at all.
Roll(W, mem, file, day, bf, cal, has, emptyRaises) ==
    LET Download(P, d, C) ==
            LET tickers == RollTickers(P.list, C.list)
                F == [C.W EXCEPT !.log = Append(@, FetchEvent("roll", tickers, d, d + 1,
                                                  {<<s, d>> : s \in {x \in tickers : has[x]}})),
                                 !.raised = (tickers = {} /\ emptyRaises)]
            IN  IF C.W.raised THEN C.W ELSE RollSave(F, C.list, 1, d, has, day)
        Calendar(P, d) ==
            Download(P, d, RollCalendar([W |-> Tick(P.W), list |-> <<>>], P.list, 1, d, cal))
        Existing(P) ==
            IF P.W.raised \/ P.list = <<>> THEN P.W
            ELSE Calendar(P, RollTargetDate(ClockDay(P.W, day)))
    IN  Finish(Existing(RollPartition([W |-> W, list |-> <<>>], 1, mem, day, bf)),
               mem, file, day)

\* ------------------------------------------------------------ roll_backfill

RECURSIVE BackfillAll(_, _, _, _, _)
BackfillAll(W, i, mem, day, bf) ==
    IF i > Len(Symbols) \/ W.raised THEN W
    ELSE BackfillAll(Backfill(W, Symbols[i], bf[Symbols[i]][ClockDay(W, day)], mem, day), i + 1, mem, day, bf)

\* Roller.roll_backfill
RollBackfill(W, mem, file, day, bf) ==
    Finish(BackfillAll(W, 1, mem, day, bf), mem, file, day)

\* ---------------------------------------------------------------- fill_date

\* fill_date for one symbol that has an entry m in self.meta
FillSymbol(W, symbol, m, target, cal, has) ==
    LET earliest_date == FromIsoFormat(m["earliest_date"])
        latest_date == FromIsoFormat(m["latest_date"])
        answer == IsTradingDayForSymbol(symbol, cal[symbol])
        W1 == [W EXCEPT !.log = Append(@, FetchEvent("fill", {symbol}, target, target + 1,
                                 IF has[symbol] THEN {<<symbol, target>>} ELSE {}))]
    IN  IF target < earliest_date \/ target > latest_date THEN W
        ELSE IF <<symbol, target>> \in W.sl THEN W
        ELSE IF answer = "raise" THEN [W EXCEPT !.raised = TRUE]
        ELSE IF answer = "closed"
        THEN [W EXCEPT !.log = Append(@, ClosedEvent("fill", symbol, target))]
        ELSE IF ~has[symbol] THEN W1
        ELSE WriteSlices(W1, "fill", symbol, <<target>>)

RECURSIVE FillAll(_, _, _, _, _, _, _, _)
FillAll(W, i, mem, day, target, bf, cal, has) ==
    IF i > Len(Symbols) \/ W.raised THEN W
    ELSE LET symbol == Symbols[i]
             m == MetaGet(mem, GetSymbolCategory(symbol), symbol)
         IN  FillAll(IF m = <<>> THEN Backfill(W, symbol, bf[symbol][ClockDay(W, day)], mem, day)
                     ELSE FillSymbol(W, symbol, m[1], target, cal, has),
                     i + 1, mem, day, target, bf, cal, has)

\* Roller.fill_date
FillDate(W, mem, file, day, target, bf, cal, has) ==
    Finish(FillAll(W, 1, mem, day, target, bf, cal, has), mem, file, day)

\* ------------------------------------------------------------------- inputs

\* The provider's answers to the requests of one backfill started on day: the
\* windows from the first one it has data for carry the rows of their middle
\* day, the windows before carry none (first = ExtraWindows + 1: no rows).
\* Firsts: the provider has rows for every window, for the last one only, or
\* for none.
Firsts == {0, ExtraWindows, ExtraWindows + 1}

BackfillResponse(day, first) ==
    [k \in 0..ExtraWindows |->
         IF k >= first THEN {WindowStart(day, k) + WindowDays \div 2} ELSE {}]

BackfillResponses(day) == {BackfillResponse(day, first) : first \in Firsts}

NoRows == [k \in 0..ExtraWindows |-> {}]

\* The provider's answers to the backfills of one call begun on day: the answer
\* to the backfill of s is the one of first[s], for the windows of whichever
\* day that backfill reads from the clock.
BackfillAnswers(day) ==
    {[s \in SymbolSet |-> [x \in {day, day + 1} |-> BackfillResponse(x, first[s])]]
     : first \in [SymbolSet -> Firsts]}

\* the most readings of the clock one call makes: two per backfill, one for the
\* date roll downloads or for the record it updates, one for the aggregate
ClockReads == 2 * Len(Symbols) + 1

\* the readings at which a roll or roll_backfill can first see the next day (0:
\* it never does): both read the clock before their first request, so
\* a call whose first reading shows the next day is a call begun on that day,
\* and a midnight after the last reading of a call falls between two calls
Midnights == {0} \cup 2..ClockReads

\* the same for fill_date: its calendar and provider requests for the symbols
\* that have an entry come before its first reading of the clock, so the first
\* reading can already show the day after the one the call was begun on
FillMidnights == {0} \cup 1..ClockReads

\* the dates fill_date is asked for
FillTargets(day) == {day - 1, day}

\* the symbols of a call of fill_date that reach the calendar
FillAsks(mem, target) ==
    {s \in SymbolSet :
        LET m == MetaGet(mem, GetSymbolCategory(s), s)
        IN  /\ m # <<>>
            /\ FromIsoFormat(m[1]["earliest_date"]) <= target
            /\ target <= FromIsoFormat(m[1]["latest_date"])
            /\ <<s, target>> \notin slices}

\* ------------------------------------------------------------------ actions

Storage == World(symbolMeta, symbolDir, slices)

\* the storage at the start of a call during which midnight passes at mid
StorageAt(mid) == [Storage EXCEPT !.mid = mid]

\* the date a roll has downloaded, or would have had it got that far
RollTargetOf(l, day) ==
    LET f == {e \in {l[i] : i \in DOMAIN l} : e["ev"] = "fetch" /\ e["src"] = "roll"}
    IN  IF f = {} THEN RollTargetDate(day) ELSE (CHOOSE e \in f : TRUE)["d1"]

\* the call R has seen the midnight it was given, if any
SawMidnight(R) == IF R.W.mid = 0 THEN TRUE ELSE R.W.clock >= R.W.mid

Apply(op, target, R) ==
    /\ symbolMeta' = R.W.sm
    /\ symbolDir' = R.W.dirs
    /\ slices' = R.W.sl
    /\ log' = R.W.log
    /\ meta' = R.meta
    /\ metaFile' = R.file
    /\ lastOp' = [op |-> op, target |-> target, raised |-> R.W.raised]
    /\ steps' = steps + 1
    /\ today' = DayAfter(R.W, today)

\* a Roller constructed on empty storage on day, then one roll() that
\* backfilled symbol from windows that all had rows
EarlierRunOn(symbol, day, L) ==
    Finish([Backfill(World(<<>>, {}, {}), symbol, BackfillResponse(day, 0), L.meta, day)
               EXCEPT !.log = <<>>, !.clock = 0],
           L.meta, L.file, day)

\* Storage as a Roller left it the day before, when the watchlist held only
\* symbol.
EarlierRun(symbol) ==
    EarlierRunOn(symbol, Today0 - 1, LoadStorageMeta(<<>>, World(<<>>, {}, {}), Today0 - 1))

\* Roller.__init__ on the storage W with the aggregate file
Construct(W, file) ==
    \E L \in {LoadStorageMeta(file, W, Today0)} :
        /\ symbolMeta = W.sm
        /\ symbolDir = W.dirs
        /\ slices = W.sl
        /\ meta = L.meta
        /\ metaFile = L.file

\* The Roller is constructed on empty storage, or on the storage of an earlier
\* run made before the other symbol was added to the watchlist.
Init ==
    /\ today = Today0
    /\ \E prior \in {<<>>} \cup {<<s>> : s \in SymbolSet} :
        \E E \in {IF prior = <<>> THEN [W |-> World(<<>>, {}, {}), file |-> <<>>]
                  ELSE EarlierRun(prior[1])} :
            Construct([E.W EXCEPT !.clock = 0], E.file)
    /\ lastOp = [op |-> "init", target |-> Today0, raised |-> FALSE]
    /\ log = <<>>
    /\ steps = 0

\* a new process constructs a Roller on the same storage
NewRoller ==
    /\ steps < MaxSteps
    /\ LET L == LoadStorageMeta(metaFile, Storage, today)
       IN  meta' = L.meta /\ metaFile' = L.file
    /\ lastOp' = [op |-> "init", target |-> today, raised |-> FALSE]
    /\ log' = <<>>
    /\ steps' = steps + 1
    /\ UNCHANGED <<today, symbolMeta, symbolDir, slices>>

\* one or more midnights pass between two calls
NextDay ==
    /\ steps < MaxSteps
    /\ \E k \in 1..MaxSkip : today' = today + k
    /\ lastOp' = [op |-> "day", target |-> today', raised |-> FALSE]
    /\ log' = <<>>
    /\ steps' = steps + 1
    /\ UNCHANGED <<symbolMeta, symbolDir, slices, meta, metaFile>>

DoRoll ==
    /\ steps < MaxSteps
    /\ \E bf \in {f \in BackfillAnswers(today) :
                    \A s \in SymbolSet : ~IsNewSymbol(meta, s) => f[s][today] = NoRows},
          cal \in {f \in [SymbolSet -> BOOLEAN] :
                    \A s \in SymbolSet : IsNewSymbol(meta, s) => f[s]},
          emptyRaises \in BOOLEAN :
        \E has \in {f \in [SymbolSet -> BOOLEAN] :
                    \A s \in SymbolSet : (IsNewSymbol(meta, s) \/ ~cal[s]) => f[s]} :
            /\ emptyRaises =>
                   /\ \E s \in SymbolSet : ~IsNewSymbol(meta, s)
                   /\ \A s \in SymbolSet : ~IsNewSymbol(meta, s) => ~cal[s]
            /\ \E mid \in Midnights :
                 \E R \in {Roll(StorageAt(mid), meta, metaFile, today,
                                bf, cal, has, emptyRaises)} :
                     SawMidnight(R) /\ Apply("roll", RollTargetOf(R.W.log, today), R)

DoRollBackfill ==
    /\ steps < MaxSteps
    /\ \E bf \in BackfillAnswers(today) :
         \E mid \in Midnights :
           \E R \in {RollBackfill(StorageAt(mid), meta, metaFile, today, bf)} :
               SawMidnight(R) /\ Apply("roll_backfill", today, R)

DoFillDate ==
    /\ steps < MaxSteps
    /\ \E target \in FillTargets(today) :
        \E bf \in {f \in BackfillAnswers(today) :
                    \A s \in SymbolSet : ~IsNewSymbol(meta, s) => f[s][today] = NoRows},
           cal \in {f \in [SymbolSet -> BOOLEAN] :
                    \A s \in SymbolSet : s \notin FillAsks(meta, target) => f[s]} :
          \E has \in {f \in [SymbolSet -> BOOLEAN] :
                    \A s \in SymbolSet : (s \notin FillAsks(meta, target) \/ ~cal[s]) => f[s]} :
            \E mid \in FillMidnights :
              \E R \in {FillDate(StorageAt(mid), meta, metaFile, today, target,
                                 bf, cal, has)} :
                  SawMidnight(R) /\ Apply("fill_date", target, R)

Next == NewRoller \/ NextDay \/ DoRoll \/ DoRollBackfill \/ DoFillDate

Spec == Init /\ [][Next]_vars

\* ------------------------------------------------------ reading the events

Calls == {"roll", "roll_backfill", "fill_date"}

EventsOf(l, kind) == {l[i] : i \in {j \in DOMAIN l : l[j]["ev"] = kind}}

\* the requests a backfill of symbol made in l
BackfillFetchesOf(l, symbol) ==
    {e \in EventsOf(l, "fetch") : e["src"] = "backfill" /\ symbol \in e["syms"]}

\* the dates of the rows the backfill requests of symbol returned in l
BackfillRowsOf(l, symbol) ==
    {p[2] : p \in UNION {e["got"] : e \in BackfillFetchesOf(l, symbol)}}

\* the dates of the slices written for symbol in l
WrittenFor(l, symbol) ==
    {e["d1"] : e \in {w \in EventsOf(l, "write") : symbol \in w["syms"]}}

\* a backfill of symbol ran in l and the provider returned no rows in any window
EmptyBackfill(l, symbol) ==
    /\ BackfillFetchesOf(l, symbol) # {}
    /\ BackfillRowsOf(l, symbol) = {}

\* the coverage record of symbol was written by src in l
RecordWrittenBy(l, src, symbol) ==
    \E e \in EventsOf(l, "meta") : e["src"] = src /\ symbol \in e["syms"]

SlicesOf(sl, symbol) == {p[2] : p \in {q \in sl : q[1] = symbol}}

Earliest(record) == FromIsoFormat(record["earliest_date"])
Latest(record) == FromIsoFormat(record["latest_date"])

\* the aggregate agg holds exactly the persisted coverage records
AggregateMatches(agg, sm) ==
    \A c \in DOMAIN agg.cats :
        /\ DOMAIN agg.cats[c] = {s \in DOMAIN sm : GetSymbolCategory(s) = c}
        /\ \A s \in DOMAIN agg.cats[c] : agg.cats[c][s] = sm[s]

\* ------------------------------------------------------------------ claims

\* C1: whenever roll updates the coverage record of a symbol, the record's
\* latest_date after the roll is greater than or equal to its latest_date
\* before the roll.
C1_RollLatestMonotone ==
    [][\A s \in DOMAIN symbolMeta :
           (lastOp'.op = "roll" /\ RecordWrittenBy(log', "roll", s))
               => Latest(symbolMeta'[s]) >= Latest(symbolMeta[s])]_vars

\* C2: whenever a backfill of a symbol that has a persisted coverage record
\* completes, the earliest_date of the persisted record is less than or equal
\* to the earliest_date the record held before the backfill.
C2_BackfillEarliestMonotone ==
    [][\A s \in DOMAIN symbolMeta :
           RecordWrittenBy(log', "backfill", s)
               => Earliest(symbolMeta'[s]) <= Earliest(symbolMeta[s])]_vars

\* C3: in every reachable state every persisted coverage record in which both
\* dates are set has earliest_date <= latest_date.
C3_EarliestLeLatest ==
    \A s \in DOMAIN symbolMeta :
        ({"earliest_date", "latest_date"} \subseteq DOMAIN symbolMeta[s])
            => Earliest(symbolMeta[s]) <= Latest(symbolMeta[s])

\* C4: a call fill_date(d) made when a watchlist symbol has a coverage record
\* and a slice for (symbol, d) already exists (as it does after a first
\* fill_date(d) that wrote it) issues no provider request for that symbol
\* covering d and writes no slice for (symbol, d): the existing slice is never
\* overwritten.
C4_FillDateIdempotent ==
    [][\A s \in DOMAIN symbolMeta :
           (lastOp'.op = "fill_date" /\ <<s, lastOp'.target>> \in slices)
               => /\ lastOp'.target \notin WrittenFor(log', s)
                  /\ \A e \in EventsOf(log', "fetch") :
                         ~(s \in e["syms"] /\ e["d1"] <= lastOp'.target
                                           /\ lastOp'.target < e["d2"])]_vars

\* C5: after any call, no provider request of that call asks for a symbol
\* over a date for which the calendar reported that symbol's exchange closed
\* in that call (roll: today-1, fill_date: the requested date).
C5_CalendarGating ==
    \A c \in EventsOf(log, "closed") :
        \A f \in EventsOf(log, "fetch") :
            ~(c["syms"] \subseteq f["syms"] /\ f["d1"] <= c["d1"] /\ c["d1"] < f["d2"])

\* a roll in which the calendar closed one symbol and the batched request
\* went out for another
C5_Witness ==
    /\ lastOp.op = "roll"
    /\ \E c \in EventsOf(log, "closed") :
           \E f \in EventsOf(log, "fetch") : f["src"] = "roll" /\ f["syms"] # {}

\* C6: immediately after a rescan (every call that returns ends with one), for
\* every category the aggregate's symbol entries are exactly the symbols with a
\* persisted coverage record, and every entry equals that record.
C6_RescanConsistency ==
    (lastOp.op \in Calls /\ ~lastOp.raised) => AggregateMatches(meta, symbolMeta)

\* a roll has changed a record the aggregate already held, and rescanned
C6_Witness ==
    /\ lastOp.op = "roll"
    /\ ~lastOp.raised
    /\ \E s \in DOMAIN symbolMeta : RecordWrittenBy(log, "roll", s)

\* C7: when the provider returns no rows for every window of a backfill of a
\* symbol, the call ends in an error, the symbol's persisted coverage record is
\* what it was (absent stays absent), and no slice is written for the symbol.
C7_EmptyIngestion ==
    [][\A s \in SymbolSet :
           EmptyBackfill(log', s)
               => /\ lastOp'.raised
                  /\ (s \in DOMAIN symbolMeta') = (s \in DOMAIN symbolMeta)
                  /\ s \in DOMAIN symbolMeta => symbolMeta'[s] = symbolMeta[s]
                  /\ WrittenFor(log', s) = {}
                  /\ SlicesOf(slices', s) = SlicesOf(slices, s)]_vars

\* an empty backfill of a symbol that has a coverage record has raised
C7_Witness ==
    /\ lastOp.raised
    /\ \E s \in DOMAIN symbolMeta : EmptyBackfill(log, s)

\* C8: when the backfill of one watchlist symbol fails in a call, the other
\* watchlist symbols are still processed in that call (in roll_backfill each of
\* them is backfilled) and the aggregate is rescanned and persisted at the end.
C8_FailureIsolation ==
    \A s \in SymbolSet :
        (lastOp.op \in Calls /\ EmptyBackfill(log, s))
            => /\ lastOp.op = "roll_backfill"
                   => \A o \in SymbolSet \ {s} : BackfillFetchesOf(log, o) # {}
               /\ AggregateMatches(meta, symbolMeta)
               /\ metaFile = <<meta>>

\* every window of the backfill of symbol in l returned rows, no date twice
FullBackfill(l, symbol) ==
    /\ Cardinality(BackfillFetchesOf(l, symbol)) = ExtraWindows + 1
    /\ \A e \in BackfillFetchesOf(l, symbol) : e["got"] # {}
    /\ \A e, f \in BackfillFetchesOf(l, symbol) : e # f => e["got"] \cap f["got"] = {}

\* C9: when every window of a backfill of a symbol with no prior record
\* returns rows, the dates it writes slices for are exactly the union of the
\* windows' dates, and the record it writes has earliest_date the minimum and
\* latest_date the maximum of that union.
C9_WindowedUnion ==
    [][\A s \in SymbolSet :
           (s \notin DOMAIN symbolMeta /\ FullBackfill(log', s))
               => /\ WrittenFor(log', s) = BackfillRowsOf(log', s)
                  /\ SlicesOf(slices', s) = BackfillRowsOf(log', s)
                  /\ s \in DOMAIN symbolMeta'
                  /\ symbolMeta'[s]["earliest_date"]
                         = Strftime(MinDate(BackfillRowsOf(log', s)))
                  /\ symbolMeta'[s]["latest_date"]
                         = Strftime(MaxDate(BackfillRowsOf(log', s)))]_vars

\* the first call backfilled a symbol from four windows with rows
C9_Witness ==
    /\ steps = 1
    /\ \E s \in DOMAIN symbolMeta :
           FullBackfill(log, s) /\ Cardinality(SlicesOf(slices, s)) = ExtraWindows + 1

\* C10: when roll returns on storage that held no record and no slice, every
\* watchlist symbol has a slice for every date the provider returned rows for,
\* and its coverage record and its entry in the persisted aggregate hold the
\* same earliest_date and latest_date, the minimum and maximum of those dates.
C10_FirstRoll ==
    [][(symbolMeta = <<>> /\ slices = {} /\ lastOp'.op = "roll" /\ ~lastOp'.raised)
           => \A s \in SymbolSet :
                  LET rows == BackfillRowsOf(log', s)
                      c == GetSymbolCategory(s)
                  IN  /\ rows # {}
                      /\ rows \subseteq SlicesOf(slices', s)
                      /\ s \in DOMAIN symbolMeta'
                      /\ metaFile' # <<>>
                      /\ s \in DOMAIN metaFile'[1].cats[c]
                      /\ symbolMeta'[s]["earliest_date"] = Strftime(MinDate(rows))
                      /\ symbolMeta'[s]["latest_date"] = Strftime(MaxDate(rows))
                      /\ metaFile'[1].cats[c][s]["earliest_date"]
                             = symbolMeta'[s]["earliest_date"]
                      /\ metaFile'[1].cats[c][s]["latest_date"]
                             = symbolMeta'[s]["latest_date"]]_vars

\* the first call was a roll that returned, having backfilled every symbol
C10_Witness ==
    /\ steps = 1
    /\ lastOp.op = "roll"
    /\ ~lastOp.raised
    /\ DOMAIN symbolMeta = SymbolSet
    /\ \E s \in SymbolSet : Cardinality(SlicesOf(slices, s)) > 1

\* the keys _update_symbol_meta_file sets whatever the fields are
StampedKeys == {"symbol", "last_updated"}

\* the keys of the fields src passes for symbol
FieldKeys(src, symbol) ==
    IF src = "roll" THEN {"latest_date"}
    ELSE {"earliest_date", "latest_date"}
             \cup DOMAIN Watchlist[GetSymbolCategory(symbol)][symbol]

\* C11: an update of an existing coverage record keeps every key of the record
\* and changes only the keys of the fields passed, symbol and last_updated;
\* after roll sets latest_date the record's earliest_date and the attributes
\* copied from the configuration are what they were before.
C11_PartialMerge ==
    [][\A s \in DOMAIN symbolMeta : \A src \in {"roll", "backfill"} :
           RecordWrittenBy(log', src, s)
               => /\ s \in DOMAIN symbolMeta'
                  /\ DOMAIN symbolMeta[s] \subseteq DOMAIN symbolMeta'[s]
                  /\ \A k \in DOMAIN symbolMeta[s] \ (StampedKeys \cup FieldKeys(src, s)) :
                         symbolMeta'[s][k] = symbolMeta[s][k]
                  /\ src = "roll" =>
                         \A k \in {"earliest_date"}
                                  \cup DOMAIN Watchlist[GetSymbolCategory(s)][s] :
                             /\ k \in DOMAIN symbolMeta[s]
                             /\ symbolMeta'[s][k] = symbolMeta[s][k]]_vars

\* a roll has moved the latest_date of a record that holds an earlier
\* earliest_date and the exchange of the configuration
C11_Witness ==
    /\ lastOp.op = "roll"
    /\ \E s \in DOMAIN symbolMeta :
           /\ RecordWrittenBy(log, "roll", s)
           /\ "exchange" \in DOMAIN symbolMeta[s]
           /\ Earliest(symbolMeta[s]) < Latest(symbolMeta[s])
           /\ Latest(symbolMeta[s]) = lastOp.target

\* C12: fill_date leaves coverage bounds alone: every symbol that has a
\* coverage record when fill_date is called has the same earliest_date and
\* latest_date in its persisted record when the call ends, whatever the date
\* and the outcome.
C12_FillDateKeepsBounds ==
    [][\A s \in DOMAIN symbolMeta :
           lastOp'.op = "fill_date"
               => /\ s \in DOMAIN symbolMeta'
                  /\ symbolMeta'[s]["earliest_date"] = symbolMeta[s]["earliest_date"]
                  /\ symbolMeta'[s]["latest_date"] = symbolMeta[s]["latest_date"]]_vars

\* the symbols of the watchlist whose exchange never closes
AlwaysOpen ==
    {s \in SymbolSet : Watchlist[GetSymbolCategory(s)][s]["exchange"] = "24/7"}

\* C13 as stated: a roll that updates a record leaves no trading day strictly
\* between the previous and the new latest_date without a slice, however many
\* days have passed since the previous roll (stated for the symbols whose
\* exchange trades every day).
C13_RollLeavesNoGap ==
    [][\A s \in DOMAIN symbolMeta \cap AlwaysOpen :
           (lastOp'.op = "roll" /\ RecordWrittenBy(log', "roll", s))
               => \A x \in (Latest(symbolMeta[s]) + 1)..(Latest(symbolMeta'[s]) - 1) :
                      <<s, x>> \in slices']_vars

\* C13: a roll sets the latest_date of every record it updates to the day
\* before the day it read from the clock (the day the call began on or, when
\* midnight passed during its backfills, the day it ended on) and writes one
\* slice for the symbol, the one of that day, whatever latest_date the record
\* held before.
C13_RollTargetsYesterday ==
    [][\A s \in DOMAIN symbolMeta :
           (lastOp'.op = "roll" /\ RecordWrittenBy(log', "roll", s))
               => \E x \in today..today' :
                      /\ symbolMeta'[s]["latest_date"] = Strftime(x - 1)
                      /\ WrittenFor(log', s) = {x - 1}
                      /\ SlicesOf(slices', s) = SlicesOf(slices, s) \cup {x - 1}]_vars

\* a roll has moved a latest_date over a day that has no slice
C13_Witness ==
    /\ lastOp.op = "roll"
    /\ \E s \in DOMAIN symbolMeta :
           /\ RecordWrittenBy(log, "roll", s)
           /\ Latest(symbolMeta[s]) = today - 1
           /\ <<s, today - 1>> \in slices
           /\ <<s, today - 2>> \notin slices
           /\ \E x \in SlicesOf(slices, s) : x < today - 2

\* the symbols the calendar reported closed in the roll of l
ClosedInRoll(l) ==
    {s \in SymbolSet :
        \E e \in EventsOf(l, "closed") : e["src"] = "roll" /\ s \in e["syms"]}

\* C14: after a roll in which there were existing symbols and the calendar
\* reported today-1 closed for every one of them, the roll has returned with
\* the aggregate persisted and has issued no batched provider request.
C14_AllClosedNoFetch ==
    (/\ lastOp.op = "roll"
     /\ ClosedInRoll(log) # {}
     /\ ClosedInRoll(log) = {s \in SymbolSet : BackfillFetchesOf(log, s) = {}})
        => /\ \A e \in EventsOf(log, "fetch") : e["src"] # "roll"
           /\ ~lastOp.raised
           /\ metaFile = <<meta>>

\* C15: a roll that reaches the end of its partition invokes backfill for a
\* watchlist symbol if and only if the symbol had no persisted coverage record
\* when the roll began, and no symbol it backfilled is in its batched request.
C15_PartitionByRecord ==
    [][(lastOp'.op = "roll" /\ ~lastOp'.raised)
           => \A s \in SymbolSet :
                  /\ (BackfillFetchesOf(log', s) # {}) <=> (s \notin DOMAIN symbolMeta)
                  /\ BackfillFetchesOf(log', s) # {}
                         => \A e \in EventsOf(log', "fetch") :
                                e["src"] = "roll" => s \notin e["syms"]]_vars

\* C16: immediately after a Roller is constructed the entries of the aggregate
\* in memory are exactly the persisted coverage records, whether or not an
\* aggregate document was there to load.
C16_RescanAtLoad ==
    lastOp.op = "init" => AggregateMatches(meta, symbolMeta)

\* C17: in the events of every call, between a provider request issued by a
\* backfill and the next provider request of the call (the next window,
\* another symbol's backfill, roll's batched request, fill_date's request)
\* there is at least one sleep.
C17_SleepAfterBackfillFetch ==
    \A i, j \in DOMAIN log :
        (/\ i < j
         /\ log[i]["ev"] = "fetch"
         /\ log[i]["src"] = "backfill"
         /\ log[j]["ev"] = "fetch")
            => \E k \in (i + 1)..(j - 1) : log[k]["ev"] = "sleep" /\ log[k]["d1"] > 0

\* a roll has backfilled a new symbol over its four windows and then sent the
\* batched request for an existing one
C17_Witness ==
    /\ lastOp.op = "roll"
    /\ \E s \in SymbolSet : Cardinality(BackfillFetchesOf(log, s)) = ExtraWindows + 1
    /\ \E i, j \in DOMAIN log :
           /\ i < j
           /\ log[i]["ev"] = "fetch" /\ log[i]["src"] = "backfill"
           /\ log[j]["ev"] = "fetch" /\ log[j]["src"] = "roll" /\ log[j]["syms"] # {}

\* the provider's longest span of one request of 1-minute data, in days
ProviderMaxSpan == 7

\* C18: every provider request issued by a backfill asks for a range
\* [start, end) of at most the provider's seven days.
C18_WindowWithinProviderSpan ==
    \A e \in EventsOf(log, "fetch") :
        e["src"] = "backfill" => e["d2"] - e["d1"] <= ProviderMaxSpan

\* C19: at the end of every call, the bounds of every persisted coverage record
\* enclose the dates of all the persisted slices of its symbol.
C19_BoundsEncloseSlices ==
    lastOp.op \in Calls
        => \A s \in DOMAIN symbolMeta :
               \A x \in SlicesOf(slices, s) :
                   Earliest(symbolMeta[s]) <= x /\ x <= Latest(symbolMeta[s])

\* C20: in every reachable state every persisted coverage record holds both
\* earliest_date and latest_date, a persisted slice exists for the symbol on
\* each of the two dates, and in the events of a call the slice of the
\* latest_date a record is given is written before the record is.
C20_BoundsHaveSlices ==
    /\ \A s \in DOMAIN symbolMeta :
           /\ {"earliest_date", "latest_date"} \subseteq DOMAIN symbolMeta[s]
           /\ <<s, Earliest(symbolMeta[s])>> \in slices
           /\ <<s, Latest(symbolMeta[s])>> \in slices
    /\ \A j \in DOMAIN log :
           log[j]["ev"] = "meta"
               => \A s \in log[j]["syms"] :
                      /\ s \in DOMAIN symbolMeta
                      /\ \E i \in 1..(j - 1) :
                             /\ log[i]["ev"] = "write"
                             /\ s \in log[i]["syms"]
                             /\ log[i]["d1"] = Latest(symbolMeta[s])

\* a roll has written the record of a new symbol after its slices and the
\* record of an existing symbol after the slice of today-1
C20_Witness ==
    /\ lastOp.op = "roll"
    /\ \E s, o \in DOMAIN symbolMeta :
           /\ RecordWrittenBy(log, "backfill", s)
           /\ Cardinality(WrittenFor(log, s)) > 1
           /\ RecordWrittenBy(log, "roll", o)
           /\ WrittenFor(log, o) = {today - 1}

====
